---- MODULE Spec2Model ----
(***************************************************************************)
(* cmap::Bimap<TypeKey, TypeValue> (src/lib/bimap.h): two std::map members *)
(* m_map (key -> value) and m_mapInversed (value -> key), written by       *)
(* insert, erase and clear and read by getValue, getKey, size and empty.   *)
(* A std::map is modelled as a function whose DOMAIN is its set of keys.   *)
(***************************************************************************)
EXTENDS Integers, Sequences, FiniteSets, TLC

(* Bounds of the model *)
MaxKey == 3
MaxVal == 2
MaxArgs == 2

(* TypeKey and TypeValue: two disjoint ranges of integers *)
Keys == 1..MaxKey
Values == {10 + i : i \in 1..MaxVal}

VARIABLES m_map, m_mapInversed, lastOp, args, it, saved

vars == <<m_map, m_mapInversed, lastOp, args, it, saved>>

(***************************************************************************)
(* std::map primitives used by the class                                   *)
(***************************************************************************)

(* A std::map after default construction or clear() *)
MapEmpty == [x \in {} |-> 0]

(* map[k] = v : inserts k if it is absent, overwrites its value otherwise *)
MapAssign(map, k, v) == [x \in (DOMAIN map) \cup {k} |-> IF x = k THEN v ELSE map[x]]

(* map.erase(k) : removes k if it is there, no effect otherwise *)
MapErase(map, k) == [x \in (DOMAIN map) \ {k} |-> map[x]]

(* map.find(k) != map.cend() *)
MapFind(map, k) == k \in DOMAIN map

(* The two outcomes of map.at(k): the stored value, or std::out_of_range *)
NotFound == [ok |-> FALSE, val |-> 0]
Found(x) == [ok |-> TRUE, val |-> x]
MapAt(map, k) == IF k \in DOMAIN map THEN Found(map[k]) ELSE NotFound

(***************************************************************************)
(* The methods of Bimap, as functions of the two members                   *)
(***************************************************************************)

Members(m, inv) == [m_map |-> m, m_mapInversed |-> inv]

(* clear that forgets m_mapInversed *)
clear_forward_only(b) == Members(MapEmpty, b.m_mapInversed)

clear(b) == Members(MapEmpty, MapEmpty)

(* insert that forgets the reverse assignment *)
insert_forward_only(b, key, value) ==
    Members(MapAssign(b.m_map, key, value), b.m_mapInversed)

(* insert with std::map::insert semantics: an existing key keeps its value *)
insert_keep_existing(b, key, value) ==
    Members(IF MapFind(b.m_map, key) THEN b.m_map ELSE MapAssign(b.m_map, key, value),
            MapAssign(b.m_mapInversed, value, key))

(* insert that first drops the reverse entry of the value the key had *)
insert_evict_old_value(b, key, value) ==
    Members(MapAssign(b.m_map, key, value),
            MapAssign(IF MapFind(b.m_map, key)
                      THEN MapErase(b.m_mapInversed, b.m_map[key])
                      ELSE b.m_mapInversed,
                      value, key))

insert(b, key, value) ==
    Members(MapAssign(b.m_map, key, value),
            MapAssign(b.m_mapInversed, value, key))

(* erase that leaves the reverse entry behind *)
erase_forward_only(b, key) ==
    IF ~MapFind(b.m_map, key)
    THEN b
    ELSE Members(MapErase(b.m_map, key), b.m_mapInversed)

(* erase that, when the key has no forward entry, removes the reverse      *)
(* entries that still name it instead of returning                          *)
erase_clean_stale(b, key) ==
    IF ~MapFind(b.m_map, key)
    THEN Members(b.m_map,
                 [v \in {w \in DOMAIN b.m_mapInversed : b.m_mapInversed[w] # key}
                     |-> b.m_mapInversed[v]])
    ELSE Members(MapErase(b.m_map, key),
                 MapErase(b.m_mapInversed, b.m_map[key]))

erase(b, key) ==
    IF ~MapFind(b.m_map, key)
    THEN b
    ELSE Members(MapErase(b.m_map, key),
                 MapErase(b.m_mapInversed, b.m_map[key]))

(* getValue with operator[] semantics: a miss yields a default value *)
getValue_or_default(b, key) ==
    IF MapFind(b.m_map, key) THEN Found(b.m_map[key]) ELSE Found(0)

getValue(b, key) == MapAt(b.m_map, key)

getKey(b, value) == MapAt(b.m_mapInversed, value)

size(b) == Cardinality(DOMAIN b.m_map)

empty(b) == DOMAIN b.m_map = {}

(***************************************************************************)
(* Iterators of m_map: a position is a key of m_map, or the position past  *)
(* the last key (end), or the position before the first key (rend).        *)
(***************************************************************************)

Smallest(S) == CHOOSE x \in S : \A y \in S : x <= y
Largest(S) == CHOOSE x \in S : \A y \in S : x >= y

end(b) == MaxKey + 1

rend(b) == 0

begin(b) == IF DOMAIN b.m_map = {} THEN end(b) ELSE Smallest(DOMAIN b.m_map)

(* rbegin that starts at the first key instead of the last *)
rbegin_at_first(b) == IF DOMAIN b.m_map = {} THEN rend(b) ELSE Smallest(DOMAIN b.m_map)

rbegin(b) == IF DOMAIN b.m_map = {} THEN rend(b) ELSE Largest(DOMAIN b.m_map)

(* ++ on an iterator, on a reverse iterator *)
Increment(b, pos) ==
    LET later == {k \in DOMAIN b.m_map : k > pos}
    IN IF later = {} THEN end(b) ELSE Smallest(later)

ReverseIncrement(b, pos) ==
    LET earlier == {k \in DOMAIN b.m_map : k < pos}
    IN IF earlier = {} THEN rend(b) ELSE Largest(earlier)

(* *pos : the pair the iterator is at *)
Deref(b, pos) == <<pos, b.m_map[pos]>>

(* for(pos = begin(); pos != end(); ++pos), collecting *pos *)
RECURSIVE AscendingFrom(_, _)
AscendingFrom(b, pos) ==
    IF pos = end(b) THEN <<>> ELSE <<Deref(b, pos)>> \o AscendingFrom(b, Increment(b, pos))

(* for(pos = rbegin(); pos != rend(); ++pos), collecting *pos *)
RECURSIVE DescendingFrom(_, _)
DescendingFrom(b, pos) ==
    IF pos = rend(b) THEN <<>> ELSE <<Deref(b, pos)>> \o DescendingFrom(b, ReverseIncrement(b, pos))

Ascending(b) == AscendingFrom(b, begin(b))

Descending(b) == DescendingFrom(b, rbegin(b))

(* Bimap() *)
BimapDefault == clear(Members(MapEmpty, MapEmpty))

(* A list constructor that keeps the first node of a repeated key, as the  *)
(* initializer-list constructor of std::map does                           *)
RECURSIVE BimapList_first_wins(_)
BimapList_first_wins(list) ==
    IF list = <<>>
    THEN Members(MapEmpty, MapEmpty)
    ELSE LET n == Len(list)
             node == list[n]
             b == BimapList_first_wins(SubSeq(list, 1, n - 1))
         IN IF MapFind(b.m_map, node[1]) THEN b ELSE insert(b, node[1], node[2])

(* Bimap(const std::initializer_list<_TypeNode>&): insert of each node, in order *)
RECURSIVE BimapList(_)
BimapList(list) ==
    IF list = <<>>
    THEN Members(MapEmpty, MapEmpty)
    ELSE LET n == Len(list)
             node == list[n]
         IN insert(BimapList(SubSeq(list, 1, n - 1)), node[1], node[2])

(* The initializer lists of at most MaxArgs nodes *)
ListArgs == UNION {[1..n -> Keys \X Values] : n \in 0..MaxArgs}

(***************************************************************************)
(* The object and the calls made on it                                     *)
(***************************************************************************)

(* The members of the object, and the same after the step *)
this == Members(m_map, m_mapInversed)
this_next == Members(m_map', m_mapInversed')

(* The call that produced the current state: its name, its arguments, and  *)
(* what m_map.at(key) and m_mapInversed.at(value) gave when it was made.   *)
Call(op, key, value, oldValue, oldKey) ==
    [op |-> op, key |-> key, value |-> value, oldValue |-> oldValue, oldKey |-> oldKey]

Becomes(b) ==
    /\ m_map' = b.m_map
    /\ m_mapInversed' = b.m_mapInversed

(* args is the initializer list the object is built from and it the number *)
(* of its nodes already inserted; saved holds the members as they were     *)
(* when an insert that is to be undone was made, and is empty otherwise.   *)

(* The object after Bimap() *)
Init ==
    /\ m_map = BimapDefault.m_map
    /\ m_mapInversed = BimapDefault.m_mapInversed
    /\ lastOp = Call("Bimap", 0, 0, NotFound, NotFound)
    /\ args = <<>>
    /\ it = 0
    /\ saved = <<>>

(* The object after Bimap(args) *)
InitList ==
    \E list \in ListArgs :
        /\ m_map = BimapList(list).m_map
        /\ m_mapInversed = BimapList(list).m_mapInversed
        /\ lastOp = Call("BimapList", 0, 0, NotFound, NotFound)
        /\ args = list
        /\ it = Len(list)
        /\ saved = <<>>

Insert(key, value) ==
    /\ Becomes(insert(this, key, value))
    /\ lastOp' = Call("insert", key, value,
                      getValue(this, key), getKey(this, value))
    /\ UNCHANGED <<args, it, saved>>

Erase(key) ==
    /\ Becomes(erase(this, key))
    /\ lastOp' = Call("erase", key, 0, getValue(this, key), NotFound)
    /\ UNCHANGED <<args, it, saved>>

Clear ==
    /\ Becomes(clear(this))
    /\ lastOp' = Call("clear", 0, 0, NotFound, NotFound)
    /\ UNCHANGED <<args, it, saved>>

(* getValue and getKey are const: they return or throw, and write nothing *)
GetValue(key) ==
    /\ UNCHANGED <<m_map, m_mapInversed>>
    /\ lastOp' = Call("getValue", key, 0, getValue(this, key), NotFound)
    /\ UNCHANGED <<args, it, saved>>

GetKey(value) ==
    /\ UNCHANGED <<m_map, m_mapInversed>>
    /\ lastOp' = Call("getKey", 0, value, NotFound, getKey(this, value))
    /\ UNCHANGED <<args, it, saved>>

Next ==
    \/ \E key \in Keys, value \in Values : Insert(key, value)
    \/ \E key \in Keys : Erase(key)
    \/ Clear
    \/ \E key \in Keys : GetValue(key)
    \/ \E value \in Values : GetKey(value)

Spec == Init /\ [][Next]_vars

SpecList == InitList /\ [][Next]_vars

(***************************************************************************)
(* The same list, inserted node by node into an object made by Bimap()     *)
(***************************************************************************)

InitSequential ==
    \E list \in ListArgs :
        /\ m_map = BimapDefault.m_map
        /\ m_mapInversed = BimapDefault.m_mapInversed
        /\ lastOp = Call("Bimap", 0, 0, NotFound, NotFound)
        /\ args = list
        /\ it = 0
        /\ saved = <<>>

(* insert(k, v) for the next pair of the list *)
InsertListed ==
    /\ it < Len(args)
    /\ LET node == args[it + 1]
       IN /\ Becomes(insert(this, node[1], node[2]))
          /\ lastOp' = Call("insert", node[1], node[2],
                            getValue(this, node[1]), getKey(this, node[2]))
    /\ it' = it + 1
    /\ UNCHANGED <<args, saved>>

NextSequential == InsertListed

SpecSequential == InitSequential /\ [][NextSequential]_vars

(***************************************************************************)
(* insert(k, v) of a new key and a new value, undone by erase(k)           *)
(***************************************************************************)

RoundTripInsert(key, value) ==
    /\ saved = <<>>
    /\ getValue(this, key) = NotFound
    /\ getKey(this, value) = NotFound
    /\ saved' = <<this>>
    /\ Becomes(insert(this, key, value))
    /\ lastOp' = Call("insert", key, value,
                      getValue(this, key), getKey(this, value))
    /\ UNCHANGED <<args, it>>

RoundTripErase ==
    /\ saved # <<>>
    /\ lastOp.op = "insert"
    /\ Becomes(erase(this, lastOp.key))
    /\ lastOp' = Call("erase", lastOp.key, 0, getValue(this, lastOp.key), NotFound)
    /\ UNCHANGED <<args, it, saved>>

NextRoundTrip ==
    \/ saved = <<>> /\ Next
    \/ \E key \in Keys, value \in Values : RoundTripInsert(key, value)
    \/ RoundTripErase

SpecRoundTrip == Init /\ [][NextRoundTrip]_vars

(***************************************************************************)
(* Callers that insert(k, v) only when k has no forward entry and v has no *)
(* reverse entry, or when k already has the value v                        *)
(***************************************************************************)

InsertCollisionFree(key, value) ==
    /\ \/ getValue(this, key) = NotFound /\ getKey(this, value) = NotFound
       \/ getValue(this, key) = Found(value)
    /\ Insert(key, value)

NextCollisionFree ==
    \/ \E key \in Keys, value \in Values : InsertCollisionFree(key, value)
    \/ \E key \in Keys : Erase(key)
    \/ Clear
    \/ \E key \in Keys : GetValue(key)
    \/ \E value \in Values : GetKey(value)

SpecCollisionFree == Init /\ [][NextCollisionFree]_vars

(***************************************************************************)
(* The steps the properties below speak of                                 *)
(***************************************************************************)

(* The step is a call of insert, of erase *)
InsertStep == lastOp'.op = "insert"
EraseStep == lastOp'.op = "erase"

(* The step is an insert that directly follows another insert *)
InsertAfterInsert == lastOp.op = "insert" /\ lastOp'.op = "insert"

(***************************************************************************)
(* Consistency of the two maps                                             *)
(***************************************************************************)

(* C1: whenever getValue(k) succeeds with value v, getKey(v) succeeds and  *)
(* returns k.                                                              *)
C1_ForwardToReverse ==
    \A k \in Keys :
        getValue(this, k).ok => getKey(this, getValue(this, k).val) = Found(k)

(* C2: whenever getKey(v) succeeds with key k, getValue(k) succeeds and    *)
(* returns v: no reverse entry exists without its forward entry.           *)
C2_ReverseToForward ==
    \A v \in Values :
        getKey(this, v).ok => getValue(this, getKey(this, v).val) = Found(v)

(* C3: no two distinct keys have the same value.                           *)
C3_ValueUniqueness ==
    \A k1, k2 \in Keys :
        (k1 # k2 /\ getValue(this, k1).ok /\ getValue(this, k2).ok)
            => getValue(this, k1) # getValue(this, k2)

(* C4: after insert(k1, v) followed by insert(k2, v) with k1 # k2,         *)
(* getKey(v) returns k2 and getValue(k1) fails with NotFound.              *)
C4_ValueCollisionOverwrite ==
    [][(/\ InsertAfterInsert
        /\ lastOp'.value = lastOp.value
        /\ lastOp'.key # lastOp.key)
       => /\ getKey(this_next, lastOp'.value) = Found(lastOp'.key)
          /\ getValue(this_next, lastOp.key) = NotFound]_vars

(* C5: where no key other than k maps to v1, after insert(k, v1) followed  *)
(* by insert(k, v2) with v1 # v2, getKey(v1) fails with NotFound.          *)
C5_KeyCollisionEvictsReverse ==
    [][(/\ InsertAfterInsert
        /\ lastOp'.key = lastOp.key
        /\ lastOp'.value # lastOp.value
        /\ \A k2 \in Keys \ {lastOp.key} : getValue(this, k2) # Found(lastOp.value))
       => getKey(this_next, lastOp.value) = NotFound]_vars

(* C6: size() is the number of entries of the forward map and also the     *)
(* number of entries of the reverse map.                                   *)
C6_EntryCountAgreement ==
    /\ size(this) = Cardinality(DOMAIN m_map)
    /\ size(this) = Cardinality(DOMAIN m_mapInversed)

(***************************************************************************)
(* insert                                                                  *)
(***************************************************************************)

(* C7: right after insert(k, v), getValue(k) returns v, getKey(v) returns  *)
(* k and the container is not empty; when neither k nor v had an entry     *)
(* before the call, size() has grown by exactly 1.                         *)
C7_InsertEstablishesPair ==
    [][InsertStep
       => /\ getValue(this_next, lastOp'.key) = Found(lastOp'.value)
          /\ getKey(this_next, lastOp'.value) = Found(lastOp'.key)
          /\ ~empty(this_next)
          /\ (/\ getValue(this, lastOp'.key) = NotFound
              /\ getKey(this, lastOp'.value) = NotFound)
             => size(this_next) = size(this) + 1]_vars

(* An insert of a new key and a new value into a container that already    *)
(* held something has just been made.                                      *)
C7_Witness ==
    /\ lastOp.op = "insert"
    /\ lastOp.oldValue = NotFound
    /\ lastOp.oldKey = NotFound
    /\ size(this) >= 2
    /\ getValue(this, lastOp.key) = Found(lastOp.value)

(* C8: insert(k, v2) on a key k that is present replaces its value:        *)
(* getValue(k) = v2 afterwards and size() is unchanged; insert changes     *)
(* size() only when k was absent, and then by +1.                          *)
C8_InsertOverwritesKey ==
    [][InsertStep
       => /\ getValue(this_next, lastOp'.key) = Found(lastOp'.value)
          /\ getValue(this, lastOp'.key).ok => size(this_next) = size(this)
          /\ ~getValue(this, lastOp'.key).ok => size(this_next) = size(this) + 1]_vars

(* An insert has just replaced the value of a present key by another one.  *)
C8_Witness ==
    /\ lastOp.op = "insert"
    /\ lastOp.oldValue.ok
    /\ lastOp.oldValue.val # lastOp.value
    /\ getValue(this, lastOp.key) = Found(lastOp.value)

(***************************************************************************)
(* erase                                                                   *)
(***************************************************************************)

(* C9: where getValue(k) = v, after erase(k) both getValue(k) and          *)
(* getKey(v) fail with NotFound and size() has decreased by exactly 1.     *)
C9_ErasePresentKey ==
    [][(EraseStep /\ getValue(this, lastOp'.key).ok)
       => /\ getValue(this_next, lastOp'.key) = NotFound
          /\ getKey(this_next, getValue(this, lastOp'.key).val) = NotFound
          /\ size(this_next) = size(this) - 1]_vars

(* An erase has just removed a pair and left another one in place.         *)
C9_Witness ==
    /\ lastOp.op = "erase"
    /\ lastOp.oldValue.ok
    /\ getValue(this, lastOp.key) = NotFound
    /\ getKey(this, lastOp.oldValue.val) = NotFound
    /\ ~empty(this)

(* C10: erase(k) with k absent leaves size() and the result of every       *)
(* getValue and getKey unchanged, and an erase(k) that directly follows an *)
(* erase(k) changes nothing.                                               *)
C10_EraseAbsentKeyNoOp ==
    [][(EraseStep /\ (~getValue(this, lastOp'.key).ok
                        \/ (lastOp.op = "erase" /\ lastOp.key = lastOp'.key)))
       => /\ size(this_next) = size(this)
          /\ \A k \in Keys : getValue(this_next, k) = getValue(this, k)
          /\ \A v \in Values : getKey(this_next, v) = getKey(this, v)]_vars

(* An erase of an absent key has just been made on a container that holds  *)
(* a forward entry and a reverse entry naming the erased key.              *)
C10_Witness ==
    /\ lastOp.op = "erase"
    /\ lastOp.oldValue = NotFound
    /\ ~empty(this)
    /\ \E v \in Values : getKey(this, v) = Found(lastOp.key)

(***************************************************************************)
(* clear                                                                   *)
(***************************************************************************)

(* C11: after clear(), isEmpty() is true, size() is 0, and getValue(k) and *)
(* getKey(v) fail with NotFound for every key k and every value v.         *)
C11_ClearResetsFully ==
    [][lastOp'.op = "clear"
       => /\ empty(this_next)
          /\ size(this_next) = 0
          /\ \A k \in Keys : getValue(this_next, k) = NotFound
          /\ \A v \in Values : getKey(this_next, v) = NotFound]_vars

(* A clear has just been made and nothing can be looked up.                *)
C11_Witness ==
    /\ lastOp.op = "clear"
    /\ empty(this)
    /\ \A v \in Values : getKey(this, v) = NotFound

(***************************************************************************)
(* getValue and getKey                                                     *)
(***************************************************************************)

(* The step is a call of getValue, of getKey *)
GetValueStep == lastOp'.op = "getValue"
GetKeyStep == lastOp'.op = "getKey"

(* C12: getValue(k) fails with NotFound when k has no forward entry and    *)
(* otherwise returns the stored value; getKey(v) fails with NotFound when  *)
(* v has no reverse entry and otherwise returns the stored key; a miss is  *)
(* no value that a hit can return; neither call changes the container.     *)
C12_StrictLookup ==
    [][/\ GetValueStep
          => /\ lastOp'.oldValue.ok <=> lastOp'.key \in DOMAIN m_map
             /\ lastOp'.oldValue.ok => lastOp'.oldValue.val = m_map[lastOp'.key]
             /\ ~lastOp'.oldValue.ok => lastOp'.oldValue = NotFound
             /\ this_next = this
       /\ GetKeyStep
          => /\ lastOp'.oldKey.ok <=> lastOp'.value \in DOMAIN m_mapInversed
             /\ lastOp'.oldKey.ok => lastOp'.oldKey.val = m_mapInversed[lastOp'.value]
             /\ ~lastOp'.oldKey.ok => lastOp'.oldKey = NotFound
             /\ this_next = this
       /\ \A k \in Keys, v \in Values : NotFound # Found(v) /\ NotFound # Found(k)]_vars

(* A getValue has just missed on a container that holds other keys.        *)
C12_Witness ==
    /\ lastOp.op = "getValue"
    /\ lastOp.oldValue = NotFound
    /\ lastOp.key \notin DOMAIN m_map
    /\ ~empty(this)

(***************************************************************************)
(* Construction from a list                                                *)
(***************************************************************************)

(* The keys, the values of a list are pairwise distinct *)
DistinctKeys(list) == \A i, j \in 1..Len(list) : i # j => list[i][1] # list[j][1]
DistinctValues(list) == \A i, j \in 1..Len(list) : i # j => list[i][2] # list[j][2]

(* C13: the bimap constructed from a list is in the state of an empty      *)
(* bimap after insert(k, v) of each pair in order; when all keys and all   *)
(* values of the list are distinct, its size() is the length of the list   *)
(* and getValue(k) = v and getKey(v) = k for every listed pair.            *)
C13_ListIsSequentialInsert ==
    /\ this = BimapList(SubSeq(args, 1, it))
    /\ (DistinctKeys(args) /\ DistinctValues(args))
       => /\ size(BimapList(args)) = Len(args)
          /\ \A i \in 1..Len(args) :
                /\ getValue(BimapList(args), args[i][1]) = Found(args[i][2])
                /\ getKey(BimapList(args), args[i][2]) = Found(args[i][1])

(* A list that repeats a key with another value has been inserted to its   *)
(* end, and the later pair is the one the key has.                         *)
C13_Witness ==
    /\ Len(args) >= 2
    /\ it = Len(args)
    /\ args[1][1] = args[2][1]
    /\ args[1][2] # args[2][2]
    /\ getValue(this, args[1][1]) = Found(args[2][2])

(***************************************************************************)
(* Traversal                                                               *)
(***************************************************************************)

(* C14: ascending traversal yields exactly size() pairs, in strictly       *)
(* increasing key order, each pair being (k, getValue(k)) for a present    *)
(* key k; descending traversal yields the same pairs in the reverse order; *)
(* on an empty bimap begin equals end and the traversal yields nothing.    *)
C14_OrderedTraversal ==
    LET asc == Ascending(this)
        desc == Descending(this)
        n == Len(asc)
    IN /\ n = size(this)
       /\ \A i, j \in 1..n : i < j => asc[i][1] < asc[j][1]
       /\ \A i \in 1..n : getValue(this, asc[i][1]) = Found(asc[i][2])
       /\ Len(desc) = n
       /\ \A i \in 1..n : desc[i] = asc[n + 1 - i]
       /\ empty(this) => (begin(this) = end(this) /\ asc = <<>> /\ desc = <<>>)

(* The container holds every key, and the traversal starts at the first    *)
(* and the reverse traversal at the last.                                  *)
C14_Witness ==
    /\ size(this) = MaxKey
    /\ Ascending(this)[1][1] = 1
    /\ Descending(this)[1][1] = MaxKey
    /\ Len(Ascending(this)) = MaxKey

(***************************************************************************)
(* What erase and insert leave alone                                       *)
(***************************************************************************)

(* C15: erase(k) affects only the pair of k: for every other present key   *)
(* k2 with getValue(k2) = v2, after erase(k) getValue(k2) is still v2 and  *)
(* getKey(v2) gives what it gave before the call.                          *)
C15_EraseFrame ==
    [][EraseStep
       => \A k2 \in Keys \ {lastOp'.key} :
             getValue(this, k2).ok
             => /\ getValue(this_next, k2) = getValue(this, k2)
                /\ getKey(this_next, getValue(this, k2).val)
                      = getKey(this, getValue(this, k2).val)]_vars

(* C16: insert(k, v) changes only the forward entry of k and the reverse   *)
(* entry of v: getValue(k2) for every key k2 # k and getKey(v2) for every  *)
(* value v2 # v give the same result before and after the call.            *)
C16_InsertFrame ==
    [][InsertStep
       => /\ \A k2 \in Keys \ {lastOp'.key} :
                getValue(this_next, k2) = getValue(this, k2)
          /\ \A v2 \in Values \ {lastOp'.value} :
                getKey(this_next, v2) = getKey(this, v2)]_vars

(* An insert has just given a present key another value, and the value the *)
(* key had is still looked up as before.                                   *)
C16_Witness ==
    /\ lastOp.op = "insert"
    /\ lastOp.oldValue.ok
    /\ lastOp.oldValue.val # lastOp.value
    /\ getKey(this, lastOp.oldValue.val) = Found(lastOp.key)
    /\ \E k2 \in Keys \ {lastOp.key} : getValue(this, k2).ok

(***************************************************************************)
(* Collision-free use                                                      *)
(***************************************************************************)

(* C17: when every insert(k, v) is made with k and v both absent, or with  *)
(* the pair (k, v) present, the reverse map is the exact inverse of the    *)
(* forward map after every operation: getValue(k) = v if and only if       *)
(* getKey(v) = k, and both maps have size() entries.                       *)
C17_CollisionFreeInverse ==
    /\ \A k \in Keys, v \in Values :
          getValue(this, k) = Found(v) <=> getKey(this, v) = Found(k)
    /\ Cardinality(DOMAIN m_map) = size(this)
    /\ Cardinality(DOMAIN m_mapInversed) = size(this)

(* An erase has just removed one of two pairs.                             *)
C17_Witness ==
    /\ lastOp.op = "erase"
    /\ lastOp.oldValue.ok
    /\ size(this) = 1
    /\ \E k \in Keys, v \in Values :
          getValue(this, k) = Found(v) /\ getKey(this, v) = Found(k)

(***************************************************************************)
(* insert then erase                                                       *)
(***************************************************************************)

(* C18: where getValue(k) and getKey(v) both fail with NotFound,           *)
(* insert(k, v) followed by erase(k) returns the container to the state it *)
(* had before: same size, same forward entries, same reverse entries.      *)
C18_InsertEraseRoundTrip ==
    (saved # <<>> /\ lastOp.op = "erase")
    => /\ size(this) = size(saved[1])
       /\ m_map = saved[1].m_map
       /\ m_mapInversed = saved[1].m_mapInversed

(* An insert of a new key and value has been undone by erase on a          *)
(* container that holds a forward entry and a reverse entry.               *)
C18_Witness ==
    /\ saved # <<>>
    /\ lastOp.op = "erase"
    /\ lastOp.oldValue.ok
    /\ DOMAIN m_map # {}
    /\ DOMAIN m_mapInversed # {}

====
